---- MODULE Spec2Model ----
(***************************************************************************)
(* Rescue-robot simulation of bg117/pathfinding-algorithm.                 *)
(*                                                                         *)
(* Two variants of the same program are modelled side by side:             *)
(*   "coop"   = sim/coop.py   : one known map shared by all robots         *)
(*   "single" = sim/single.py : one private known map per robot            *)
(* The variable `variant` is fixed by Init and selects the code that each  *)
(* operator follows.  A cell is a pair <<row, col>>, 0-indexed.            *)
(*                                                                         *)
(* The pygame window (drawing, clock, QUIT events) is not part of the      *)
(* model: the driver loop is modelled as it runs with no window event.     *)
(***************************************************************************)
EXTENDS Integers, Sequences, FiniteSets, TLC

\* ---- Map cell types (coop.py:24-29, single.py:24-29) --------------------
UNKNOWN == -2
TRAVERSED == -1
FREE == 0
OBSTACLE == 1
VICTIM == 2
ROBOT == 3

\* ---- Bounds of the model ------------------------------------------------
MaxRows == 2
MaxCols == 3
MaxRobots == 2
MaxVictims == 2
MaxObstacles == 2
\* the tick counter saturates here (the program's counter is unbounded)
MaxTicks == 9

VARIABLES
  variant,           \* "coop" or "single": which program runs
  rows, cols,        \* grid.shape
  grid,              \* ground truth, [cell -> code]
  known_map,         \* sequence of known maps: one (coop) or one per robot
  robots,            \* sequence of [pos, path], in creation order
  victim_positions,  \* the target registry
  ticks,             \* main(): ticks
  run,               \* main(): run
  turn,              \* position of main()'s "for robot in robots" loop
  branch,            \* which branch of move() the last step took
  occupied           \* history: cells stood on, per known map

vars == <<variant, rows, cols, grid, known_map, robots, victim_positions,
          ticks, run, turn, branch, occupied>>

\* the mutable program state, as one record
st == [grid |-> grid, known_map |-> known_map, robots |-> robots,
       victim_positions |-> victim_positions]

Variants == {"coop", "single"}

Cells == (0 .. rows - 1) \X (0 .. cols - 1)

\* the bounds test "0 <= nr < rows and 0 <= nc < cols"
InBounds(p) == 0 <= p[1] /\ p[1] < rows /\ 0 <= p[2] /\ p[2] < cols

\* index of the known map robot i refers to
KM(i) == IF variant = "coop" THEN 1 ELSE i

\* two cells are 4-neighbours
Adjacent(p, q) ==
  \/ p[1] = q[1] /\ (p[2] = q[2] + 1 \/ q[2] = p[2] + 1)
  \/ p[2] = q[2] /\ (p[1] = q[1] + 1 \/ q[1] = p[1] + 1)

\* (mutant of Sensed: the first entry typed as the diagonal (r+1, c+1))
SensedDiagonal(p) == << <<p[1] + 1, p[2] + 1>>, <<p[1] - 1, p[2]>>,
                        <<p[1], p[2] + 1>>, <<p[1], p[2] - 1>> >>

\* the cells update_known_map looks at: [(r+1,c), (r-1,c), (r,c+1), (r,c-1)]
Sensed(p) == << <<p[1] + 1, p[2]>>, <<p[1] - 1, p[2]>>,
                <<p[1], p[2] + 1>>, <<p[1], p[2] - 1>> >>

\* (mutant of Options: the first entry typed as (r+2, c))
OptionsFar(p) == << <<p[1] + 2, p[2]>>, <<p[1] - 1, p[2]>>,
                    <<p[1], p[2] + 1>>, <<p[1], p[2] - 1>> >>

\* move's options = [(r+1,c), (r-1,c), (r,c+1), (r,c-1)]
Options(p) == << <<p[1] + 1, p[2]>>, <<p[1] - 1, p[2]>>,
                 <<p[1], p[2] + 1>>, <<p[1], p[2] - 1>> >>

\* the BFS direction list [(-1,0), (1,0), (0,-1), (0,1)]
Dirs == << <<-1, 0>>, <<1, 0>>, <<0, -1>>, <<0, 1>> >>

\* ---- update_known_map ---------------------------------------------------
\* (mutant of Reveal: the "== UNKNOWN" test left out)
RevealAlways(km, g, n) ==
  IF InBounds(n) THEN [km EXCEPT ![n] = g[n]] ELSE km

\* one iteration of the reveal loop
Reveal(km, g, n) ==
  IF InBounds(n) /\ km[n] = UNKNOWN THEN [km EXCEPT ![n] = g[n]] ELSE km

\* (mutant of BaseMap: the map is rebuilt from np.full(UNKNOWN) on each update)
BaseMapFresh(km) == [c \in DOMAIN km |-> UNKNOWN]

\* the map the update works on: self.known_map itself
BaseMap(km) == km

\* (mutant of MarkTraversed: the cell is written only while it is UNKNOWN)
MarkTraversedIfUnknown(km, p) ==
  IF km[p] = UNKNOWN THEN [km EXCEPT ![p] = TRAVERSED] ELSE km

\* "self.known_map[r][c] = TRAVERSED"
MarkTraversed(km, p) == [km EXCEPT ![p] = TRAVERSED]

update_known_map(s, i) ==
  LET p   == s.robots[i].pos
      k   == KM(i)
      nb  == Sensed(p)
      km0 == MarkTraversed(BaseMap(s.known_map[k]), p)
      km1 == Reveal(km0, s.grid, nb[1])
      km2 == Reveal(km1, s.grid, nb[2])
      km3 == Reveal(km2, s.grid, nb[3])
      km4 == Reveal(km3, s.grid, nb[4])
  IN [s EXCEPT !.known_map[k] = km4]

\* ---- bfs_to_unexplored --------------------------------------------------
\* (mutant of Passable: the tile test left out)
PassableAny(tile) == TRUE

\* cells the search may enter
Passable(tile) ==
  IF variant = "coop" THEN tile # OBSTACLE /\ tile # VICTIM
                      ELSE tile # OBSTACLE

\* coop.py: queue of (position, path_so_far)
RECURSIVE bfs_expand_coop(_, _, _, _, _)
bfs_expand_coop(km, queue, visited, h, d) ==
  IF d > 4 THEN [queue |-> queue, visited |-> visited]
  ELSE LET n == <<h.pos[1] + Dirs[d][1], h.pos[2] + Dirs[d][2]>> IN
       IF InBounds(n) /\ n \notin visited /\ Passable(km[n])
       THEN bfs_expand_coop(km,
                Append(queue, [pos |-> n, path |-> Append(h.path, n)]),
                visited \cup {n}, h, d + 1)
       ELSE bfs_expand_coop(km, queue, visited, h, d + 1)

RECURSIVE bfs_loop_coop(_, _, _)
bfs_loop_coop(km, queue, visited) ==
  IF queue = <<>> THEN <<>>
  ELSE LET h == Head(queue) IN
       IF km[h.pos] = UNKNOWN THEN h.path
       ELSE LET e == bfs_expand_coop(km, Tail(queue), visited, h, 1)
            IN bfs_loop_coop(km, e.queue, e.visited)

\* single.py: queue of positions and a prev dictionary
RECURSIVE bfs_expand_single(_, _, _, _, _, _)
bfs_expand_single(km, queue, visited, prev, c, d) ==
  IF d > 4 THEN [queue |-> queue, visited |-> visited, prev |-> prev]
  ELSE LET n == <<c[1] + Dirs[d][1], c[2] + Dirs[d][2]>> IN
       IF InBounds(n) /\ n \notin visited /\ Passable(km[n])
       THEN bfs_expand_single(km, Append(queue, n), visited \cup {n},
                              (n :> c) @@ prev, c, d + 1)
       ELSE bfs_expand_single(km, queue, visited, prev, c, d + 1)

\* "while (r, c) in prev": the path back to the start, then reversed
RECURSIVE bfs_trace(_, _, _)
bfs_trace(prev, c, acc) ==
  IF c \in DOMAIN prev THEN bfs_trace(prev, prev[c], <<prev[c]>> \o acc)
  ELSE acc

RECURSIVE bfs_loop_single(_, _, _, _)
bfs_loop_single(km, queue, visited, prev) ==
  IF queue = <<>> THEN <<>>           \* None
  ELSE LET c == Head(queue) IN
       IF km[c] = UNKNOWN THEN bfs_trace(prev, c, <<c>>)
       ELSE LET e == bfs_expand_single(km, Tail(queue), visited, prev, c, 1)
            IN bfs_loop_single(km, e.queue, e.visited, e.prev)

\* <<>> stands for "no path" ([] in coop.py, None in single.py)
bfs_to_unexplored(s, i) ==
  LET km == s.known_map[KM(i)]
      p  == s.robots[i].pos
  IN IF variant = "coop"
     THEN bfs_loop_coop(km, <<[pos |-> p, path |-> <<>>]>>, {p})
     ELSE bfs_loop_single(km, <<p>>, {p}, <<>>)

\* ---- move -------------------------------------------------------------
\* the orders random.shuffle(options) can produce, as index permutations
Shuffles == Permutations(1 .. 4)

\* the identity order: options as built
Unshuffled == [j \in 1 .. 4 |-> j]

\* options after the shuffle picked permutation f
Shuffled(p, f) == [j \in 1 .. 4 |-> Options(p)[f[j]]]

Range4(opts) == {opts[j] : j \in 1 .. 4}

\* "for nr, nc in options: if <test>: ...": index of the first option
\* passing the test, 0 when the loop falls through
FirstIn(opts, ok) ==
  LET hits == {j \in 1 .. 4 : opts[j] \in ok} IN
  IF hits = {} THEN 0 ELSE CHOOSE j \in hits : \A h \in hits : j <= h

\* (mutant of SeesVictim: single.py reading the known map as coop.py does)
SeesVictimKnown(s, i, n) == InBounds(n) /\ s.known_map[KM(i)][n] = VICTIM

\* priority 1 test: coop.py:177-178 reads the known map, single.py:158-159
\* reads the grid
SeesVictim(s, i, n) ==
  InBounds(n) /\ (IF variant = "coop" THEN s.known_map[KM(i)][n] = VICTIM
                                      ELSE s.grid[n] = VICTIM)

\* priority 2 test: coop.py:187, single.py:168-173
SeesFree(s, i, n) ==
  InBounds(n) /\ (IF variant = "coop"
                  THEN s.known_map[KM(i)][n] = FREE
                  ELSE s.grid[n] = FREE /\ s.known_map[KM(i)][n] = FREE)

\* (mutant of SeesTraversed: coop.py reading the grid as single.py does)
SeesTraversedGrid(s, i, n) == InBounds(n) /\ s.grid[n] = TRAVERSED

\* priority 4 test: coop.py:201-205 reads the known map, single.py:188
\* reads the grid
SeesTraversed(s, i, n) ==
  InBounds(n) /\ (IF variant = "coop" THEN s.known_map[KM(i)][n] = TRAVERSED
                                      ELSE s.grid[n] = TRAVERSED)

\* "self.pos = n; self.update_known_map()"
step_to(s, i, n) == update_known_map([s EXCEPT !.robots[i].pos = n], i)

\* (mutant of rescue: the cleared cell written as 1, "grid[nr][nc] = 1")
rescue_as_obstacle(s, i, n) ==
  update_known_map([s EXCEPT !.victim_positions = @ \ {n},
                             !.grid[n] = OBSTACLE,
                             !.robots[i].pos = n], i)

\* (mutant of rescue: the "victim_positions.discard" line left out)
rescue_keeps_registry(s, i, n) ==
  update_known_map([s EXCEPT !.grid[n] = FREE, !.robots[i].pos = n], i)

\* body of priority 1
rescue(s, i, n) ==
  step_to([s EXCEPT !.victim_positions = @ \ {n}, !.grid[n] = FREE], i, n)

\* (mutant of Lookahead: only OBSTACLE tested, as single.py:142 does)
LookaheadObstacleOnly(km, rest) ==
  IF rest # <<>> /\ km[Head(rest)] = OBSTACLE THEN Tail(rest) ELSE rest

\* coop.py:165-167, the check of the next queued cell
Lookahead(km, rest) ==
  IF rest # <<>> /\ (km[Head(rest)] = VICTIM \/ km[Head(rest)] = OBSTACLE)
  THEN Tail(rest) ELSE rest

\* coop.py:155-169, "if self.path:"
follow_path_coop(s, i) ==
  LET path == s.robots[i].path
      s1   == step_to([s EXCEPT !.robots[i].path = Tail(path)], i, Head(path))
  IN [s1 EXCEPT !.robots[i].path = Lookahead(s1.known_map[KM(i)], @)]

\* single.py:139-150, "if self.path:"; replan is what bfs_to_unexplored
\* returns at line 144
follow_path_single(s, i, replan) ==
  LET path == s.robots[i].path
      next == Head(path)
      s1   == [s EXCEPT !.robots[i].path = Tail(path)]
      stale == s.known_map[KM(i)][next] = OBSTACLE
  IN IF stale /\ replan # <<>>
     THEN [s |-> step_to([s1 EXCEPT !.robots[i].path = Tail(Tail(replan))],
                         i, Head(Tail(replan))),
           branch |-> "replan"]
     ELSE [s |-> step_to(s1, i, next),
           branch |-> IF stale THEN "replan_fail" ELSE "path"]

\* (mutant of Adopt: the slice left out, "self.path = path")
AdoptWhole(path) == path

\* the plan adopted from a search result: "self.path = path[1:]"
Adopt(path) == Tail(path)

\* coop.py:151-208.  opts is options after the shuffle; path is what
\* self.bfs_to_unexplored() returns at line 193 (the search reads only the
\* known map and self.pos, which no earlier line of move changes)
RECURSIVE move_coop(_, _, _, _)
move_coop(s, i, opts, path) ==
  IF s.robots[i].path # <<>>
  THEN LET after == follow_path_coop(s, i)
       IN [s |-> after,
           branch |-> IF Len(after.robots[i].path) < Len(s.robots[i].path) - 1
                      THEN "lookahead" ELSE "path"]
  ELSE
    LET v == FirstIn(opts, {n \in Range4(opts) : SeesVictim(s, i, n)})
        f == FirstIn(opts, {n \in Range4(opts) : SeesFree(s, i, n)})
        t == FirstIn(opts, {n \in Range4(opts) : SeesTraversed(s, i, n)})
    IN IF v # 0 THEN [s |-> rescue(s, i, opts[v]), branch |-> "p1"]
       ELSE IF f # 0 THEN [s |-> step_to(s, i, opts[f]), branch |-> "p2"]
       ELSE IF Len(path) > 1
       THEN [s |-> move_coop([s EXCEPT !.robots[i].path = Adopt(path)],
                             i, opts, path).s,
             branch |-> "p3"]
       ELSE IF t # 0 THEN [s |-> step_to(s, i, opts[t]), branch |-> "p4"]
       ELSE [s |-> s, branch |-> "stay"]

\* single.py:135-191.  opts is options after the shuffle; path is what
\* self.bfs_to_unexplored() returns at line 144 or 179
move_single(s, i, opts, path) ==
  IF s.robots[i].path # <<>>
  THEN follow_path_single(s, i, path)
  ELSE
    LET v == FirstIn(opts, {n \in Range4(opts) : SeesVictim(s, i, n)})
        f == FirstIn(opts, {n \in Range4(opts) : SeesFree(s, i, n)})
        t == FirstIn(opts, {n \in Range4(opts) : SeesTraversed(s, i, n)})
    IN IF v # 0 THEN [s |-> rescue(s, i, opts[v]), branch |-> "p1"]
       ELSE IF f # 0 THEN [s |-> step_to(s, i, opts[f]), branch |-> "p2"]
       ELSE IF Len(path) > 1
       THEN [s |-> step_to([s EXCEPT !.robots[i].path = Tail(Adopt(path))],
                           i, Head(Adopt(path))),
             branch |-> "p3"]
       ELSE IF t # 0 THEN [s |-> step_to(s, i, opts[t]), branch |-> "p4"]
       ELSE [s |-> s, branch |-> "stay"]

move(s, i, opts, path) ==
  IF variant = "coop" THEN move_coop(s, i, opts, path)
                      ELSE move_single(s, i, opts, path)

\* number of calls of move that one "robot.move()" of the driver makes:
\* coop.py:196 calls self.move() again after adopting a plan, single.py never
\* calls it again.  Which priority is reached does not depend on the order
\* of options.
RECURSIVE move_calls(_, _)
move_calls(s, i) ==
  IF variant = "single" \/ s.robots[i].path # <<>> THEN 1
  ELSE LET opts == Shuffled(s.robots[i].pos, Unshuffled)
           path == bfs_to_unexplored(s, i)
       IN IF /\ \A n \in Range4(opts) : ~SeesVictim(s, i, n) /\ ~SeesFree(s, i, n)
             /\ Len(path) > 1
          THEN 1 + move_calls([s EXCEPT !.robots[i].path = Adopt(path)], i)
          ELSE 1

\* ---- module setup and main ----------------------------------------------
\* np.full(shape, UNKNOWN)
BlankMap == [c \in Cells |-> UNKNOWN]

\* "for r in range(rows): for c in range(cols):" from cell number k on
RECURSIVE setup_scan(_, _)
setup_scan(k, s) ==
  IF k = rows * cols THEN s
  ELSE LET c == <<k \div cols, k % cols>> IN
       IF s.grid[c] = VICTIM
       THEN setup_scan(k + 1, [s EXCEPT !.victim_positions = @ \cup {c}])
       ELSE IF s.grid[c] = ROBOT
       THEN LET s1 == [s EXCEPT
                        !.robots = Append(@, [pos |-> c, path |-> <<>>]),
                        !.known_map = IF variant = "coop" THEN @
                                      ELSE Append(@, BlankMap)]
            IN setup_scan(k + 1, update_known_map(s1, Len(s1.robots)))
       ELSE setup_scan(k + 1, s)

\* the state in which main() starts, for the loaded grid g
Setup(v, rw, cl, g) ==
  /\ variant = v
  /\ rows = rw
  /\ cols = cl
  /\ \E s \in {setup_scan(0, [grid |-> g,
                              known_map |-> IF v = "coop" THEN <<BlankMap>>
                                            ELSE <<>>,
                              robots |-> <<>>,
                              victim_positions |-> {}])} :
        /\ grid = s.grid
        /\ known_map = s.known_map
        /\ robots = s.robots
        /\ victim_positions = s.victim_positions
        /\ occupied = [k \in DOMAIN s.known_map |->
                        {s.robots[i].pos : i \in {j \in DOMAIN s.robots :
                            (IF v = "coop" THEN 1 ELSE j) = k}}]
  /\ ticks = 0
  /\ run = TRUE
  /\ turn = 1
  /\ branch = "init"

\* subsets of S with between lo and hi elements
Pick(S, lo, hi) == {X \in SUBSET S : lo <= Cardinality(X) /\ Cardinality(X) <= hi}

\* a grid as load_map returns it: robots at R, victims at V, obstacles at O
LoadedMap(rw, cl, R, V, O) ==
  [c \in (0 .. rw - 1) \X (0 .. cl - 1) |->
     IF c \in R THEN ROBOT
     ELSE IF c \in V THEN VICTIM
     ELSE IF c \in O THEN OBSTACLE ELSE FREE]

\* every map file within the bounds, run by either program
Init ==
  \E v \in Variants, rw \in 1 .. MaxRows, cl \in 1 .. MaxCols :
    \E R \in Pick((0 .. rw - 1) \X (0 .. cl - 1), 1, MaxRobots) :
      \E V \in Pick(((0 .. rw - 1) \X (0 .. cl - 1)) \ R, 0, MaxVictims) :
        \E O \in Pick((((0 .. rw - 1) \X (0 .. cl - 1)) \ R) \ V,
                      0, MaxObstacles) :
          Setup(v, rw, cl, LoadedMap(rw, cl, R, V, O))

Min(a, b) == IF a < b THEN a ELSE b

\* one iteration of "for robot in robots: robot.move()"
Move ==
  /\ run
  /\ turn <= Len(robots)
  /\ \E found \in {bfs_to_unexplored(st, turn)} :
     \* random.shuffle is reached only when the plan is empty
     \E f \in (IF robots[turn].path # <<>> THEN {Unshuffled} ELSE Shuffles) :
     \E res \in {move(st, turn, Shuffled(robots[turn].pos, f), found)} :
       /\ grid' = res.s.grid
       /\ known_map' = res.s.known_map
       /\ robots' = res.s.robots
       /\ victim_positions' = res.s.victim_positions
       /\ branch' = res.branch
       /\ occupied' = [occupied EXCEPT ![KM(turn)] =
                         @ \cup {res.s.robots[turn].pos}]
  /\ turn' = turn + 1
  /\ UNCHANGED <<variant, rows, cols, ticks, run>>

\* (mutant of Finished: the exit test inverted, "if victim_positions:")
FinishedInverted(vp) == vp # {}

\* the loop's exit test applied to the registry
Finished(vp) == vp = {}

\* end of the pass: "if not victim_positions: run = False" and "ticks += 1"
EndTick ==
  /\ run
  /\ turn = Len(robots) + 1
  /\ run' = ~Finished(victim_positions)
  /\ ticks' = Min(ticks + 1, MaxTicks)
  /\ turn' = 1
  /\ branch' = "check"
  /\ UNCHANGED <<variant, rows, cols, grid, known_map, robots,
                 victim_positions, occupied>>

Next == Move \/ EndTick

Spec == Init /\ [][Next]_vars

\* what every step of Next does to the loop position
Advance == run /\ turn' = (IF turn = Len(robots) + 1 THEN 1 ELSE turn + 1)

\* The driver loop keeps running while run is true.  Every step of Next is an
\* Advance step that changes turn and Advance is enabled exactly when Next
\* is, so this is WF_vars(Next), stated on the loop position alone.
LoopRuns == WF_turn(Advance)

LiveSpec == Init /\ [][Next]_vars /\ LoopRuns

\* the scenario map: 5x5, no obstacle, one robot at (0,0), one victim at (4,4)
InitScenario ==
  \E v \in Variants :
    Setup(v, 5, 5, LoadedMap(5, 5, {<<0, 0>>}, {<<4, 4>>}, {}))

ScenarioSpec == InitScenario /\ [][Next]_vars

ScenarioLiveSpec == InitScenario /\ [][Next]_vars /\ LoopRuns

TypeOK ==
  /\ variant \in Variants
  /\ run \in BOOLEAN
  /\ ticks \in 0 .. MaxTicks
  /\ turn \in 1 .. Len(robots) + 1
  /\ Len(known_map) = (IF variant = "coop" THEN 1 ELSE Len(robots))
  /\ \A i \in DOMAIN robots : InBounds(robots[i].pos)

\* =========================================================================
\* Properties
\* =========================================================================

\* the robot whose move produced the current state (turn was advanced past it)
Mover == turn - 1

Moved == branch \in {"path", "lookahead", "replan", "replan_fail",
                    "p1", "p2", "p3", "p4"}

\* cells holding the load-time robot code: the robots' start cells
StartCells == {c \in Cells : grid[c] = ROBOT}

\* S closed under 4-connected steps onto cells that are not obstacles
RECURSIVE Flood(_)
Flood(S) ==
  LET T == S \cup {c \in Cells : grid[c] # OBSTACLE /\ \E n \in S : Adjacent(c, n)}
  IN IF T = S THEN S ELSE Flood(T)

\* every registered target can be reached from some start cell
AllTargetsReachable == victim_positions \subseteq Flood(StartCells)

\* registered targets that no start cell reaches
EnclosedTargets == victim_positions \ Flood(StartCells)

AllRescued == victim_positions = {} /\ ~run

\* every cell of the largest grid within the bounds
AllCells == (0 .. MaxRows - 1) \X (0 .. MaxCols - 1)

\* a retreat (priority 4) is being decided with q among its choices: q is a
\* 4-neighbour of the deciding robot that its known map marks TRAVERSED
RetreatOffered(q) ==
  /\ branch' = "p4"
  /\ Adjacent(robots[turn].pos, q)
  /\ q \in Cells
  /\ known_map[KM(turn)][q] = TRAVERSED

\* the retreat being decided goes to q
RetreatTaken(q) == branch' = "p4" /\ robots'[turn].pos = q

\* the shuffle is fair to every cell: a cell that is among the choices of
\* infinitely many retreats is the cell chosen by infinitely many retreats
FairShuffle ==
  \A q \in AllCells :
    []<><<RetreatOffered(q)>>_vars => []<><<RetreatTaken(q)>>_vars

\* C1 (as claimed): in coop.py, on every map whose targets are all reachable
\* from a start cell, every run of the driver loop, whatever orders the
\* shuffle picks, eventually empties the registry and stops.
C1_CoopLiveness ==
  (variant = "coop" /\ AllTargetsReachable) => <>AllRescued

\* C1 (amended): the same, for every run in which the shuffle is fair.
C1_CoopLivenessFair ==
  (variant = "coop" /\ AllTargetsReachable) => (FairShuffle => <>AllRescued)

\* a coop run has ended with every target rescued, after at least two ticks
\* that ended with a target still in the registry
C1_Witness == variant = "coop" /\ AllRescued /\ ticks >= 3

\* C2: in single.py, on every map whose targets are all reachable from a
\* start cell, every run of the driver loop eventually empties the registry
\* and stops.
C2_SingleLiveness ==
  (variant = "single" /\ AllTargetsReachable) => <>AllRescued

\* C3 (as claimed): with an enclosed target on the map, the driver loop
\* eventually stops with an enclosed target still in the registry.
C3_StopsUnrescued ==
  (EnclosedTargets # {}) => <>(~run /\ EnclosedTargets # {})

\* C3 (what the loop does instead): it has no tick bound; while an enclosed
\* target is in the registry the loop has not stopped, however many ticks
\* have passed.
C3_NoStopWhileEnclosed == (EnclosedTargets # {}) => run

\* the loop is still running with an enclosed target after MaxTicks ticks
C3_Witness == EnclosedTargets # {} /\ run /\ ticks = MaxTicks

\* C4 (as claimed): on the scenario map the run has ended with the registry
\* empty once 8 ticks have passed.
C4_Within8 == ticks >= 8 => AllRescued

\* C4 (amended): on the scenario map every run ends, with the registry empty,
\* and never after fewer than 8 ticks.
C4_EndsAfterAtLeast8 ==
  /\ <>(~run)
  /\ [](~run => (victim_positions = {} /\ ticks >= 8))

\* a run that ended after exactly 8 ticks
C4_Witness == AllRescued /\ ticks = 8

\* C5: each rescue (priority 1) turns the ground-truth cell the robot moves
\* onto from VICTIM to FREE and removes exactly that position from the
\* registry: the registry loses exactly one entry, no other grid cell changes,
\* and the cell was still a target (no target is cleared twice).
C5_RescueEffect ==
  [][branch' = "p1" =>
       LET p == robots'[turn].pos IN
       /\ grid[p] = VICTIM
       /\ p \in victim_positions
       /\ grid' = [grid EXCEPT ![p] = FREE]
       /\ victim_positions' = victim_positions \ {p}
       /\ Cardinality(victim_positions') = Cardinality(victim_positions) - 1
  ]_vars

\* a rescue has just happened while another robot stands next to the rescued
\* cell (it was adjacent to the same target in this tick)
C5_Witness ==
  /\ branch = "p1"
  /\ \E j \in DOMAIN robots :
       j # Mover /\ Adjacent(robots[j].pos, robots[Mover].pos)

\* C6: after every move the cell the robot occupies is not VICTIM in the
\* ground truth, and a cell changes from VICTIM to FREE only in a step in
\* which a robot moved onto it.
C6_TargetFreeOnEntry ==
  /\ [](\A i \in DOMAIN robots : grid[robots[i].pos] # VICTIM)
  /\ [][\A c \in Cells :
          (grid[c] = VICTIM /\ grid'[c] = FREE) =>
             \E i \in DOMAIN robots :
                robots'[i].pos = c /\ robots[i].pos # c]_vars

\* C7: a known-map cell that is not UNKNOWN is never UNKNOWN again.
C7_KnownMapMonotone ==
  [][\A k \in DOMAIN known_map : \A c \in Cells :
        known_map[k][c] # UNKNOWN => known_map'[k][c] # UNKNOWN]_vars

\* a move has updated a map that holds revealed cells and unknown cells
C7_Witness ==
  /\ Moved
  /\ ticks >= 1
  /\ \E c, d \in Cells :
       /\ known_map[KM(Mover)][c] \in {FREE, OBSTACLE, VICTIM}
       /\ known_map[KM(Mover)][d] = UNKNOWN

\* C8: between moves, every robot's position is TRAVERSED in the known map
\* the robot refers to.
C8_PositionTraversed ==
  \A i \in DOMAIN robots : known_map[KM(i)][robots[i].pos] = TRAVERSED

\* a robot has just stepped onto a cell that is not the one it was on
C8_Witness ==
  /\ branch \in {"path", "p2", "p3"}
  /\ Cardinality(occupied[KM(Mover)]) >= 3

\* C9: every known-map cell that is not UNKNOWN was occupied by a robot using
\* that map or is a 4-neighbour of such a cell, and a TRAVERSED cell was
\* occupied by a robot using that map.
C9_RevealLocality ==
  \A k \in DOMAIN known_map : \A c \in Cells :
    /\ known_map[k][c] # UNKNOWN =>
         (c \in occupied[k] \/ \E n \in occupied[k] : Adjacent(c, n))
    /\ known_map[k][c] = TRAVERSED => c \in occupied[k]

\* after some moves a map holds a revealed cell nobody stood on, and a cell
\* further away that is still unknown
C9_Witness ==
  /\ Moved
  /\ \E k \in DOMAIN known_map : \E c, d \in Cells :
       /\ known_map[k][c] \in {FREE, OBSTACLE, VICTIM}
       /\ c \notin occupied[k]
       /\ known_map[k][d] = UNKNOWN
       /\ Cardinality(occupied[k]) >= 2

\* C10: update_known_map with the robot at pos sets the cell pos to TRAVERSED,
\* sets each in-bounds 4-neighbour that was UNKNOWN to the grid value there,
\* and leaves every other known-map cell, every other known map, the grid,
\* the registry and the robot's position and plan unchanged.  Checked for
\* every robot and every position in every reachable state.
C10_UpdateEffect ==
  \A i \in DOMAIN robots : \A p \in Cells :
    LET s0 == [st EXCEPT !.robots[i].pos = p]
        s1 == update_known_map(s0, i)
        k  == KM(i)
    IN /\ s1.known_map[k][p] = TRAVERSED
       /\ \A c \in Cells \ {p} :
            s1.known_map[k][c] =
              (IF Adjacent(c, p) /\ known_map[k][c] = UNKNOWN
               THEN grid[c] ELSE known_map[k][c])
       /\ \A j \in DOMAIN known_map : j # k => s1.known_map[j] = known_map[j]
       /\ DOMAIN s1.known_map = DOMAIN known_map
       /\ s1.grid = grid
       /\ s1.victim_positions = victim_positions
       /\ s1.robots = s0.robots

\* a robot stands next to a revealed FREE cell (the next update overrides it)
\* that has an unknown neighbour and a neighbour already revealed
C10_Witness ==
  /\ Moved
  /\ \E i \in DOMAIN robots : \E p, n, m \in Cells :
       /\ Adjacent(robots[i].pos, p)
       /\ known_map[KM(i)][p] = FREE
       /\ Adjacent(p, n) /\ known_map[KM(i)][n] = UNKNOWN
       /\ Adjacent(p, m) /\ known_map[KM(i)][m] \in {FREE, OBSTACLE, VICTIM}

\* ---- bfs_to_unexplored, against a search written independently -----------
\* a cell the search must not enter, by the claim's words: known OBSTACLE,
\* and in coop.py also known VICTIM
Blocking(km, c) ==
  km[c] = OBSTACLE \/ (variant = "coop" /\ km[c] = VICTIM)

\* least number of 4-connected hops from the cells S (k hops from the start)
\* to an UNKNOWN cell through non-blocking cells; -1 when there is none
RECURSIVE NearestUnknown(_, _, _)
NearestUnknown(km, S, k) ==
  IF \E c \in S : km[c] = UNKNOWN THEN k
  ELSE LET T == S \cup {n \in Cells : /\ ~Blocking(km, n)
                                      /\ \E c \in S : Adjacent(c, n)}
       IN IF T = S THEN -1 ELSE NearestUnknown(km, T, k + 1)

\* the cells after the start on a returned path: coop.py returns them,
\* single.py returns the start cell first
Hops(path) == IF variant = "coop" \/ path = <<>> THEN path ELSE Tail(path)

\* C11: for every robot in every reachable state, bfs_to_unexplored returns
\* no path when no UNKNOWN cell can be reached through non-blocking cells;
\* otherwise it returns a path that leaves the robot's cell by 4-adjacent
\* steps, ends on an UNKNOWN cell, passes only known non-blocking cells
\* before it, and has the least possible number of hops.
C11_BfsShortest ==
  \A i \in DOMAIN robots :
    LET km   == known_map[KM(i)]
        p    == robots[i].pos
        d    == NearestUnknown(km, {p}, 0)
        path == bfs_to_unexplored(st, i)
        h    == Hops(path)
    IN IF d = -1 THEN path = <<>>
       ELSE /\ Len(h) = d
            /\ d >= 1
            /\ variant = "single" => Head(path) = p
            /\ km[h[d]] = UNKNOWN
            /\ \A j \in 1 .. d - 1 : km[h[j]] # UNKNOWN /\ ~Blocking(km, h[j])
            /\ \A j \in 1 .. d : h[j] \in Cells
                                 /\ Adjacent(IF j = 1 THEN p ELSE h[j - 1], h[j])

\* one robot is three or more hops from the nearest UNKNOWN cell while
\* another robot of the same run can reach none
C11_Witness ==
  /\ \E i \in DOMAIN robots : NearestUnknown(known_map[KM(i)], {robots[i].pos}, 0) >= 3
  /\ \E i \in DOMAIN robots :
       /\ NearestUnknown(known_map[KM(i)], {robots[i].pos}, 0) = -1
       /\ \E c \in Cells : known_map[KM(i)][c] = UNKNOWN

\* C12: in every reachable state every cell of the ground-truth grid is FREE,
\* OBSTACLE or VICTIM (never UNKNOWN, TRAVERSED or the load-time ROBOT code),
\* a cell that held the ROBOT code is FREE once no robot stands on it, and
\* every revealed known-map cell is TRAVERSED, FREE, OBSTACLE or VICTIM.
C12_GridCellTypes ==
  /\ \A c \in Cells : grid[c] \in {FREE, OBSTACLE, VICTIM}
  /\ \A c \in Cells :
       (\A i \in DOMAIN robots : robots[i].pos # c) => grid[c] # ROBOT
  /\ \A k \in DOMAIN known_map : \A c \in Cells :
       known_map[k][c] \in {UNKNOWN, TRAVERSED, FREE, OBSTACLE, VICTIM}

\* C12 (the part about vacated start cells alone): a cell on which no robot
\* stands does not hold the ROBOT code in the grid or in a known map.
C12_VacatedStartIsFree ==
  \A c \in Cells :
    (\A i \in DOMAIN robots : robots[i].pos # c) =>
      /\ grid[c] # ROBOT
      /\ \A k \in DOMAIN known_map : known_map[k][c] # ROBOT

\* C13: across every step the only change made to the ground-truth grid is a
\* VICTIM cell becoming FREE: an OBSTACLE cell stays OBSTACLE, no cell becomes
\* OBSTACLE or VICTIM, and the grid keeps its cells.
C13_GridFrame ==
  [][/\ DOMAIN grid' = DOMAIN grid
     /\ \A c \in Cells :
          /\ grid[c] = OBSTACLE => grid'[c] = OBSTACLE
          /\ grid'[c] \in {OBSTACLE, VICTIM} => grid'[c] = grid[c]
          /\ grid'[c] # grid[c] => (grid[c] = VICTIM /\ grid'[c] = FREE)]_vars

\* a rescue has just rewritten a grid cell on a map that holds an obstacle
\* and a second target
C13_Witness ==
  /\ branch = "p1"
  /\ grid[robots[Mover].pos] = FREE
  /\ \E c, d \in Cells : grid[c] = OBSTACLE /\ grid[d] = VICTIM

\* C14: a tick is one pass over the robots in creation order, each robot
\* moving once and only the robot whose turn it is changing; the exit test is
\* made only when the pass is complete, stops the loop exactly when the
\* registry is then empty, and ticks counts the completed passes (up to the
\* cap MaxTicks of the model); a stopped loop has completed at least one pass
\* and left the registry empty.
C14_TickDiscipline ==
  /\ [][\/ /\ turn <= Len(robots)
           /\ turn' = turn + 1
           /\ run' = run /\ ticks' = ticks
           /\ Len(robots') = Len(robots)
           /\ \A j \in DOMAIN robots : j # turn => robots'[j] = robots[j]
        \/ /\ turn = Len(robots) + 1
           /\ turn' = 1
           /\ ticks' = (IF ticks < MaxTicks THEN ticks + 1 ELSE MaxTicks)
           /\ run' = (victim_positions # {})
           /\ robots' = robots /\ grid' = grid /\ known_map' = known_map
           /\ victim_positions' = victim_positions]_vars
  /\ [](~run => (turn = 1 /\ victim_positions = {} /\ ticks >= 1))

\* the registry was emptied by the first robot of a pass and the loop is
\* still running: the second robot has yet to move in that pass
C14_Witness ==
  /\ run /\ victim_positions = {} /\ ticks >= 1
  /\ Len(robots) = 2 /\ turn = 2 /\ branch = "p1"

\* the robot whose turn it is holds a plan whose first queued cell its known
\* map reports as OBSTACLE or VICTIM
StaleHead ==
  /\ run /\ turn <= Len(robots)
  /\ robots[turn].path # <<>>
  /\ known_map[KM(turn)][Head(robots[turn].path)] \in {OBSTACLE, VICTIM}

\* the state with the plan of the robot whose turn it is discarded
PlanDropped == [st EXCEPT !.robots[turn].path = <<>>]

\* C15: when the robot whose turn it is pops a queued cell that its known map
\* reports as OBSTACLE or VICTIM, it does not move onto that cell; the move
\* is the priority 1-4 decision it would take from its cell with no plan.
C15_StalePathStep ==
  [][StaleHead =>
       /\ robots'[turn].pos # Head(robots[turn].path)
       /\ \E f \in Shuffles :
            [grid |-> grid', known_map |-> known_map', robots |-> robots',
             victim_positions |-> victim_positions'] =
            move(PlanDropped, turn, Shuffled(robots[turn].pos, f),
                 bfs_to_unexplored(PlanDropped, turn)).s]_vars

\* C15 (coop.py): no state of coop.py has a queued first cell known to be
\* OBSTACLE or VICTIM when its robot is about to move
C15_CoopNeverStale == variant = "coop" => ~StaleHead

\* the plan that the path branch of coop.py works on in the step being taken:
\* the stored plan, or the plan adopted by priority 3 in this same call
PlanRun ==
  IF robots[turn].path # <<>> THEN robots[turn].path
  ELSE IF branch' = "p3" THEN Adopt(bfs_to_unexplored(st, turn))
  ELSE <<>>

C17_RescueFirst ==
  [][(/\ run /\ turn <= Len(robots)
      /\ robots[turn].path = <<>>
      /\ \E n \in Cells : Adjacent(robots[turn].pos, n) /\ grid[n] = VICTIM) =>
       LET q == robots'[turn].pos
       IN /\ branch' = "p1"
          /\ q \in Cells /\ Adjacent(robots[turn].pos, q)
          /\ grid[q] = VICTIM /\ grid'[q] = FREE
          /\ q \in victim_positions /\ q \notin victim_positions']_vars

\* a rescue taken in a later tick by a robot that also had a known FREE
\* neighbour to go to: the cell it stands on after the rescue has a TRAVERSED
\* neighbour next to a known FREE cell
C17_Witness ==
  /\ branch = "p1" /\ ticks >= 1
  /\ \E c, d \in Cells :
       /\ Adjacent(c, robots[Mover].pos)
       /\ known_map[KM(Mover)][c] = TRAVERSED
       /\ Adjacent(d, c) /\ d # robots[Mover].pos
       /\ known_map[KM(Mover)][d] = FREE /\ grid[d] = FREE

\* C18: priority 3 is taken exactly when the priorities before it yield
\* nothing and the search returns a path of length > 1; the plan adopted from
\* it, path[1:], is then non-empty, and the same call executes exactly one
\* queued step of it: the robot ends on the plan's first cell and keeps the
\* rest (less the next cell when the lookahead of coop.py drops it), the
\* grid and the registry unchanged; and in no state does a call of move by
\* the driver lead to more than one further call of move.
C18_ReentryBounded ==
  [][(run /\ turn <= Len(robots) /\ robots[turn].path = <<>>) =>
       LET found == bfs_to_unexplored(st, turn)
           plan  == SubSeq(found, 2, Len(found))
       IN /\ branch' = "p3" <=> (branch' \notin {"p1", "p2"} /\ Len(found) > 1)
          /\ branch' = "p3" =>
               /\ plan # <<>>
               /\ robots'[turn].pos = plan[1]
               /\ \/ robots'[turn].path = Tail(plan)
                  \/ /\ variant = "coop" /\ Len(plan) >= 2
                     /\ known_map'[1][plan[2]] \in {OBSTACLE, VICTIM}
                     /\ robots'[turn].path = Tail(Tail(plan))
               /\ grid' = grid /\ victim_positions' = victim_positions]_vars
  /\ [](\A i \in DOMAIN robots : move_calls(st, i) <= 2)

\* priority 3 has just adopted a plan and executed its first step, and cells
\* of the plan are still queued
C18_Witness ==
  /\ branch = "p3"
  /\ Len(robots[Mover].path) >= 2

\* the robot whose turn it is has an empty plan, no 4-neighbour that is a
\* target (in the grid or in its known map), no 4-neighbour known FREE, no
\* path from the search, and a 4-neighbour that its known map marks TRAVERSED
RetreatCase ==
  /\ run /\ turn <= Len(robots)
  /\ robots[turn].path = <<>>
  /\ \A n \in Cells : Adjacent(robots[turn].pos, n) =>
       /\ grid[n] # VICTIM
       /\ known_map[KM(turn)][n] \notin {VICTIM, FREE}
  /\ bfs_to_unexplored(st, turn) = <<>>
  /\ \E n \in Cells : /\ Adjacent(robots[turn].pos, n)
                      /\ known_map[KM(turn)][n] = TRAVERSED

\* C19: in the retreat case the move ends with the robot on a 4-neighbour
\* that its known map marked TRAVERSED.
C19_Retreat ==
  [][RetreatCase =>
       /\ Adjacent(robots[turn].pos, robots'[turn].pos)
       /\ known_map[KM(turn)][robots'[turn].pos] = TRAVERSED]_vars

\* C19 (coop.py alone): the same, for the shared-map variant only
C19_RetreatCoop ==
  [][(variant = "coop" /\ RetreatCase) =>
       /\ branch' = "p4"
       /\ Adjacent(robots[turn].pos, robots'[turn].pos)
       /\ known_map[KM(turn)][robots'[turn].pos] = TRAVERSED]_vars

\* none of the four priorities yields a move for the robot whose turn it is:
\* no neighbour passes the test of priority 1, 2 or 4 of its variant and the
\* search returns no path longer than 1
NoMoveAvailable ==
  /\ robots[turn].path = <<>>
  /\ Len(bfs_to_unexplored(st, turn)) <= 1
  /\ \A n \in Cells : Adjacent(robots[turn].pos, n) =>
       IF variant = "coop"
       THEN known_map[1][n] \notin {VICTIM, FREE, TRAVERSED}
       ELSE /\ grid[n] \notin {VICTIM, TRAVERSED}
            /\ ~(grid[n] = FREE /\ known_map[turn][n] = FREE)

\* C20: a move of a robot with an empty plan for which no priority yields a
\* move, and only such a move, is the "stay" outcome: move returns and the
\* robot's position and plan, every known map, the grid and the registry are
\* unchanged.
C20_StayChangesNothing ==
  [][(run /\ turn <= Len(robots)) =>
       /\ NoMoveAvailable <=> branch' = "stay"
       /\ NoMoveAvailable =>
            /\ robots' = robots /\ known_map' = known_map
            /\ grid' = grid /\ victim_positions' = victim_positions]_vars

\* a robot has just stayed put while a target is still in the registry
C20_Witness ==
  /\ branch = "stay" /\ victim_positions # {}
  /\ robots[Mover].path = <<>>

\* the move being taken leaves the robot whose turn it is on its cell or on
\* an in-bounds 4-neighbour of it
OneHopStep ==
  (run /\ turn <= Len(robots)) =>
    \/ robots'[turn].pos = robots[turn].pos
    \/ /\ robots'[turn].pos \in Cells
       /\ Adjacent(robots[turn].pos, robots'[turn].pos)

\* consecutive cells of every plan queue are 4-neighbours
PlansConnected ==
  \A i \in DOMAIN robots : \A j \in 1 .. Len(robots[i].path) - 1 :
    Adjacent(robots[i].path[j], robots[i].path[j + 1])

\* C21: every call of move leaves the robot's position unchanged or changes
\* it to an in-bounds 4-neighbour of the position before the call, the first
\* step of a freshly adopted plan included, and consecutive cells of every
\* plan queue are 4-neighbours.
C21_OneHop == [][OneHopStep]_vars /\ []PlansConnected

\* C21 (single.py alone): the same, for the private-map variant only
C21_OneHopSingle ==
  [][variant = "single" => OneHopStep]_vars /\ []PlansConnected

\* C21 (coop.py, priority 3): the first step of a freshly adopted plan always
\* lands two hops away, on a known FREE or TRAVERSED cell
C21_CoopAdoptionJumps ==
  [][(variant = "coop" /\ branch' = "p3") =>
       /\ ~Adjacent(robots[turn].pos, robots'[turn].pos)
       /\ robots'[turn].pos # robots[turn].pos
       /\ \E c \in Cells : /\ Adjacent(robots[turn].pos, c)
                           /\ Adjacent(c, robots'[turn].pos)
                           /\ known_map[1][c] = TRAVERSED
       /\ known_map[1][robots'[turn].pos] \in {FREE, TRAVERSED}]_vars

\* C22: in every reachable state no robot stands on a cell that is OBSTACLE
\* in the ground-truth grid.
C22_NoObstacleOccupancy ==
  \A i \in DOMAIN robots : grid[robots[i].pos] # OBSTACLE

\* C22 (coop.py alone): the same, for the shared-map variant only
C22_NoObstacleOccupancyCoop ==
  variant = "coop" => \A i \in DOMAIN robots : grid[robots[i].pos] # OBSTACLE

\* C23: in every reachable state the registry holds exactly the positions
\* whose ground-truth grid cell is VICTIM, so it is empty exactly when no
\* VICTIM cell remains in the grid.
C23_RegistryMatchesGrid ==
  victim_positions = {c \in Cells : grid[c] = VICTIM}

\* a rescue has just removed one target from the grid and the registry while
\* another target is still in both
C23_Witness ==
  /\ branch = "p1" /\ ticks >= 1
  /\ robots[Mover].pos \notin victim_positions
  /\ \E c \in victim_positions : grid[c] = VICTIM

====
